---- MODULE Spec2Model ----
(***************************************************************************)
(* lmctfy resource-handler core: the cgroup-based resource handler         *)
(* factory / handler pair (cgroup_resource_handler.h) and its Monitoring   *)
(* specialisation (monitoring_resource_handler.cc), over a small model of  *)
(* the kernel's cgroup file system.                                        *)
(*                                                                         *)
(* Two resource types are modelled: "Monitoring", whose code is in the     *)
(* source, and "Generic", a cgroup resource with two controllers whose     *)
(* Update and Stats outcomes are those of the pure virtual interface.      *)
(***************************************************************************)
EXTENDS Integers, Sequences, FiniteSets, TLC

\* ------------------------------------------------------------------ bounds
MaxHandlers == 2
MaxCallbacks == 1
NumCounters == 4

\* --------------------------------------------------------------- constants
Names == {"/a", "/b"}
NoName == "-"

PerfHierarchy == "perf"
AllHierarchies == {"perf", "memory", "cpu"}

ResourceTypes == {"Monitoring", "Generic"}

\* ::std::map<CgroupHierarchy, CgroupController *> iterates in key order.
HierarchyOrder(rtype) ==
  IF rtype = "Monitoring" THEN <<"perf">> ELSE <<"cpu", "memory">>

Hierarchies(rtype) ==
  {HierarchyOrder(rtype)[i] : i \in 1..Len(HierarchyOrder(rtype))}

\* The hierarchy whose mount the factory's New depends on.
HierarchyType(rtype) == HierarchyOrder(rtype)[1]

StatusCodes ==
  {"OK", "NOT_FOUND", "ALREADY_EXISTS", "INVALID_ARGUMENT",
   "FAILED_PRECONDITION", "UNAVAILABLE", "INTERNAL"}

\* ContainerSpec / ContainerStats / EventSpec: the set of fields that are set.
MessageFields == {"f"}
Messages == SUBSET MessageFields
EmptyMessage == {}

UpdatePolicies == {"UPDATE_REPLACE", "UPDATE_DIFF"}

\* Thread ids (pid_t) that can be entered, and the cgroup they start in.
Tids == {1, 2}
RootPath == "/"

\* Threads of the caller.
Threads == {"t1", "t2"}
Idle == [op |-> "none", h |-> 0, pc |-> "idle", status |-> "OK"]
StatsTypes == {"STATS_SUMMARY", "STATS_FULL"}

VARIABLES
  mounted,        \* hierarchies CgroupFactory::IsMounted reports mounted
  owned,          \* hierarchies CgroupFactory::OwnsCgroup reports owned
  factory,        \* per resource type: the factory constructed, or NoFactory
  constructed,    \* number of factory objects constructed, per class
  cgroups,        \* kernel: <<hierarchy, path>> -> directory instance (0: none)
  handlers,       \* heap: every ResourceHandler object constructed so far
  callbacks,      \* heap: every notification callback handed to a handler
  notifications,  \* registered notifications
  crashed,        \* the process died on a use of a deleted object
  tasks,          \* kernel: <<hierarchy, tid>> -> path of the cgroup the tid is in
  threads,        \* per thread: the handler call it is executing, or Idle
  last,           \* the call that completed last
  prev,           \* the call before it (Create / Destroy results only)
  statsPc,        \* Stats in progress: index of the next counter to read
  statsOut,       \* Stats in progress: counter -> value set in the output
  statsSetCalls,  \* Stats in progress: counter -> number of setter calls
  statsReads,     \* Stats in progress: counters read so far, in order
  statsOutcomes,  \* Stats in progress: outcome of each read so far
  statsStatus     \* status Stats returned, or "running"

vars ==
  <<mounted, owned, factory, constructed, cgroups, handlers, callbacks,
    notifications, crashed, tasks, threads, last, prev,
    statsPc, statsOut, statsSetCalls, statsReads, statsOutcomes, statsStatus>>

kernelVars == <<mounted, owned, cgroups>>
factoryVars == <<factory, constructed>>
callbackVars == <<callbacks, notifications>>
statsVars ==
  <<statsPc, statsOut, statsSetCalls, statsReads, statsOutcomes, statsStatus>>

NoFactory == [built |-> FALSE, owns |-> FALSE, supported |-> FALSE]

NoCall ==
  [op |-> "none", rtype |-> "none", h |-> 0, name |-> NoName,
   status |-> "OK", live |-> TRUE, dangling |-> FALSE,
   in |-> EmptyMessage, out |-> EmptyMessage, arg |-> "none",
   pre |-> {}, called |-> <<>>, created |-> {}, rollback |-> "none",
   cb |-> 0, busy |-> {}, tids |-> <<>>, refused |-> {}]

NoPrev == [op |-> "none", h |-> 0, name |-> NoName, rtype |-> "none"]

\* What prev remembers of a completed call.
Remember(call) ==
  IF call.op \in {"Create", "Destroy"} /\ call.status = "OK" /\ ~call.dangling
  THEN [op |-> call.op, h |-> call.h, name |-> call.name, rtype |-> call.rtype]
  ELSE NoPrev

Record(call) ==
  /\ last' = call
  /\ prev' = Remember(last)

\* ------------------------------------------------------------------ kernel

DirExists(cg, hier, path) == cg[<<hier, path>>] # 0

NoControllers == [x \in {} |-> 0]

\* XyzControllerFactory::Get(name): a controller for the existing cgroup
\* directory; does not create it.
ControllerFactoryGet(cg, hier, path) ==
  IF DirExists(cg, hier, path)
  THEN [status |-> "OK", path |-> path, dir |-> cg[<<hier, path>>], cg |-> cg]
  ELSE [status |-> "NOT_FOUND", path |-> path, dir |-> 0, cg |-> cg]

\* XyzControllerFactory::Create(name): makes the cgroup directory; `dir` names
\* the new directory instance.
ControllerFactoryCreate(cg, hier, path, dir) ==
  IF DirExists(cg, hier, path)
  THEN [status |-> "ALREADY_EXISTS", path |-> path, dir |-> 0, cg |-> cg]
  ELSE [status |-> "OK", path |-> path, dir |-> dir,
        cg |-> [cg EXCEPT ![<<hier, path>>] = dir]]

\* Faulty variant: a controller's Destroy that reports OK and leaves the
\* directory in place.
ControllerDestroy_KeepsDirectory(cg, hier, path, busy) ==
  IF ~DirExists(cg, hier, path) THEN [status |-> "NOT_FOUND", cg |-> cg]
  ELSE [status |-> "OK", cg |-> cg]

\* CgroupController::Destroy(): removes the backing directory; fails when it
\* is gone or when the kernel refuses (busy \in the hierarchies refusing now).
ControllerDestroy(cg, hier, path, busy) ==
  IF ~DirExists(cg, hier, path) THEN [status |-> "NOT_FOUND", cg |-> cg]
  ELSE IF hier \in busy THEN [status |-> "FAILED_PRECONDITION", cg |-> cg]
  ELSE [status |-> "OK", cg |-> [cg EXCEPT ![<<hier, path>>] = 0]]

\* ----------------------------------------------------------- factory: New

\* Faulty variant: New without the mount check.
MonitoringNew_NoMountCheck(isMounted, ownsCgroup) ==
  [status |-> "OK", message |-> "",
   perfFactories |-> 1, factories |-> 1, owns |-> ownsCgroup]

\* MonitoringResourceHandlerFactory::New.  isMounted / ownsCgroup are the
\* answers of CgroupFactory for PerfControllerFactory::HierarchyType().
\* perfFactories / factories count the objects the call constructs.
MonitoringNew(isMounted, ownsCgroup) ==
  IF ~isMounted
  THEN [status |-> "NOT_FOUND",
        message |-> "Monitoring resource depends on the perf cgroup hierarchy",
        perfFactories |-> 0, factories |-> 0, owns |-> FALSE]
  ELSE [status |-> "OK", message |-> "",
        perfFactories |-> 1, factories |-> 1, owns |-> ownsCgroup]

\* New of a generic cgroup resource: every hierarchy it uses must be mounted.
GenericNew(isMounted, ownsCgroup) ==
  IF ~isMounted
  THEN [status |-> "NOT_FOUND",
        message |-> "resource depends on an unmounted cgroup hierarchy",
        perfFactories |-> 0, factories |-> 0, owns |-> FALSE]
  ELSE [status |-> "OK", message |-> "",
        perfFactories |-> 0, factories |-> 1, owns |-> ownsCgroup]

\* CgroupResourceHandlerFactory's constructor: whether the resource is
\* supported is settled here, from the hierarchies mounted now.
CgroupResourceHandlerFactory(rtype, isMounted, owns) ==
  [built |-> TRUE, owns |-> owns,
   supported |-> \A hier \in Hierarchies(rtype) : isMounted[hier]]

\* CgroupFactory::IsMounted, as a function of the hierarchy.
IsMounted == [hier \in AllHierarchies |-> hier \in mounted]

FactoryNew(rtype) ==
  IF rtype = "Monitoring"
  THEN MonitoringNew(PerfHierarchy \in mounted, PerfHierarchy \in owned)
  ELSE GenericNew(Hierarchies(rtype) \subseteq mounted,
                  HierarchyType(rtype) \in owned)

New(rtype) ==
  /\ ~crashed
  /\ ~factory[rtype].built
  /\ LET r == FactoryNew(rtype) IN
       /\ factory' =
            IF r.status = "OK"
            THEN [factory EXCEPT
                    ![rtype] = CgroupResourceHandlerFactory(rtype, IsMounted,
                                                            r.owns)]
            ELSE factory
       /\ constructed' =
            [constructed EXCEPT
               !.perfControllerFactory = @ + r.perfFactories,
               ![rtype] = @ + r.factories]
       /\ Record([NoCall EXCEPT !.op = "New", !.rtype = rtype,
                                !.status = r.status, !.arg = r.message])
  /\ UNCHANGED <<tasks, threads, kernelVars, handlers, callbackVars, crashed, statsVars>>

\* The factory's constructor called directly, as a caller that holds a
\* PerfControllerFactory can: no mount check comes before it.
Construct(rtype) ==
  /\ ~crashed
  /\ ~factory[rtype].built
  /\ factory' =
       [factory EXCEPT
          ![rtype] = CgroupResourceHandlerFactory(rtype, IsMounted,
                                                  HierarchyType(rtype) \in owned)]
  /\ constructed' = [constructed EXCEPT ![rtype] = @ + 1]
  /\ Record([NoCall EXCEPT !.op = "Construct", !.rtype = rtype])
  /\ UNCHANGED <<tasks, threads, kernelVars, handlers, callbackVars, crashed, statsVars>>

\* ------------------------------------------- factory: Get / Create primitives

\* CgroupResourceHandler's constructor: takes ownership of the controllers,
\* keyed by hierarchy.  backing remembers the directories they were built on.
CgroupResourceHandler(name, rtype, controllers) ==
  [rtype |-> rtype, name |-> name, state |-> "live",
   ctrls |-> controllers, backing |-> controllers]

\* Faulty variant: the constructor hands no controller to the base class.
MonitoringResourceHandler_NoController(name, perfController) ==
  CgroupResourceHandler(name, "Monitoring", NoControllers)

\* Faulty variant: the constructor files the perf controller under another
\* hierarchy.
MonitoringResourceHandler_OnMemory(name, perfController) ==
  CgroupResourceHandler(name, "Monitoring",
                        [hier \in {"memory"} |-> perfController])

\* MonitoringResourceHandler's constructor: the handler owns the one perf
\* controller it is given.
MonitoringResourceHandler(name, perfController) ==
  CgroupResourceHandler(name, "Monitoring",
                        [hier \in {PerfHierarchy} |-> perfController])

\* Faulty variant: GetResourceHandler with a class-folded name translation (every
\* container looked up in one shared cgroup) where Create maps 1:1.
MonitoringGetResourceHandler_Folded(cg, name) ==
  LET c == ControllerFactoryGet(cg, PerfHierarchy, "/b") IN
    IF c.status # "OK"
    THEN [status |-> c.status, cg |-> c.cg, made |-> {},
          handler |-> MonitoringResourceHandler(name, [path |-> "", dir |-> 0])]
    ELSE [status |-> "OK", cg |-> c.cg, made |-> {},
          handler |->
            MonitoringResourceHandler(name, [path |-> c.path, dir |-> c.dir])]

\* Faulty variant: GetResourceHandler that asks the perf controller factory to
\* Create the cgroup, as CreateResourceHandler does.
MonitoringGetResourceHandler_Creates(cg, name) ==
  LET c == ControllerFactoryCreate(cg, PerfHierarchy, name, 1) IN
    IF c.status # "OK"
    THEN [status |-> c.status, cg |-> c.cg, made |-> {},
          handler |-> MonitoringResourceHandler(name, [path |-> "", dir |-> 0])]
    ELSE [status |-> "OK", cg |-> c.cg, made |-> {},
          handler |->
            MonitoringResourceHandler(name, [path |-> c.path, dir |-> c.dir])]

\* MonitoringResourceHandlerFactory::GetResourceHandler.
MonitoringGetResourceHandler(cg, name) ==
  LET c == ControllerFactoryGet(cg, PerfHierarchy, name) IN
    IF c.status # "OK"
    THEN [status |-> c.status, cg |-> c.cg, made |-> {},
          handler |-> MonitoringResourceHandler(name, [path |-> "", dir |-> 0])]
    ELSE [status |-> "OK", cg |-> c.cg, made |-> {},
          handler |->
            MonitoringResourceHandler(name, [path |-> c.path, dir |-> c.dir])]

\* Faulty variant: CreateResourceHandler that adopts a cgroup that is already
\* there instead of failing.
MonitoringCreateResourceHandler_Adopts(cg, name, spec, dir) ==
  LET c == IF DirExists(cg, PerfHierarchy, name)
           THEN ControllerFactoryGet(cg, PerfHierarchy, name)
           ELSE ControllerFactoryCreate(cg, PerfHierarchy, name, dir) IN
    [status |-> "OK", cg |-> c.cg, made |-> {},
     handler |->
       MonitoringResourceHandler(name, [path |-> c.path, dir |-> c.dir])]

\* Faulty variant: CreateResourceHandler with a class-folded name translation:
\* a container whose spec sets the field goes to a shared cgroup.
MonitoringCreateResourceHandler_FoldsBySpec(cg, name, spec, dir) ==
  LET c == ControllerFactoryCreate(cg, PerfHierarchy,
                                   IF spec # EmptyMessage THEN "/b" ELSE name,
                                   dir) IN
    IF c.status # "OK"
    THEN [status |-> c.status, cg |-> c.cg, made |-> {},
          handler |-> MonitoringResourceHandler(name, [path |-> "", dir |-> 0])]
    ELSE [status |-> "OK", cg |-> c.cg, made |-> {<<PerfHierarchy, c.path>>},
          handler |->
            MonitoringResourceHandler(name, [path |-> c.path, dir |-> c.dir])]

\* MonitoringResourceHandlerFactory::CreateResourceHandler.  spec is unused.
MonitoringCreateResourceHandler(cg, name, spec, dir) ==
  LET c == ControllerFactoryCreate(cg, PerfHierarchy, name, dir) IN
    IF c.status # "OK"
    THEN [status |-> c.status, cg |-> c.cg, made |-> {},
          handler |-> MonitoringResourceHandler(name, [path |-> "", dir |-> 0])]
    ELSE [status |-> "OK", cg |-> c.cg, made |-> {<<PerfHierarchy, c.path>>},
          handler |->
            MonitoringResourceHandler(name, [path |-> c.path, dir |-> c.dir])]

\* A generic cgroup resource with the 1:1 name translation: one controller
\* per hierarchy, each looked up at the container's name.
GenericGetResourceHandler(cg, name) ==
  LET hs == Hierarchies("Generic")
      missing == {hier \in hs : ~DirExists(cg, hier, name)} IN
    [status |-> IF missing = {} THEN "OK" ELSE "NOT_FOUND",
     cg |-> cg, made |-> {},
     handler |->
       CgroupResourceHandler(name, "Generic",
         [hier \in hs |-> [path |-> name, dir |-> cg[<<hier, name>>]]])]

\* Creates the directory on every hierarchy, or none when one of them exists.
GenericCreateResourceHandler(cg, name, spec, dir) ==
  LET hs == Hierarchies("Generic")
      present == {hier \in hs : DirExists(cg, hier, name)} IN
    IF present # {}
    THEN [status |-> "ALREADY_EXISTS", cg |-> cg, made |-> {},
          handler |->
            CgroupResourceHandler(name, "Generic",
              [hier \in hs |-> [path |-> "", dir |-> 0]])]
    ELSE [status |-> "OK",
          cg |-> [k \in DOMAIN cg |->
                    IF k[1] \in hs /\ k[2] = name THEN dir ELSE cg[k]],
          made |-> {<<hier, name>> : hier \in hs},
          handler |->
            CgroupResourceHandler(name, "Generic",
              [hier \in hs |-> [path |-> name, dir |-> dir]])]

\* Virtual dispatch of the two primitives.
GetResourceHandler(rtype, cg, name) ==
  IF rtype = "Monitoring"
  THEN MonitoringGetResourceHandler(cg, name)
  ELSE GenericGetResourceHandler(cg, name)

CreateResourceHandler(rtype, cg, name, spec, dir) ==
  IF rtype = "Monitoring"
  THEN MonitoringCreateResourceHandler(cg, name, spec, dir)
  ELSE GenericCreateResourceHandler(cg, name, spec, dir)

\* ------------------------------------------------------ handler operations

\* MonitoringResourceHandler::Update: returns OK, touches nothing.
MonitoringUpdate(self, cg, spec, policy) ==
  [status |-> "OK", self |-> self, cg |-> cg]

\* Update of a generic resource: the pure virtual's outcome is the
\* subclass's; it writes no directory.
GenericUpdate(self, cg, spec, policy, outcome) ==
  [status |-> outcome, self |-> self, cg |-> cg]

HandlerUpdate(self, cg, spec, policy, outcome) ==
  IF self.rtype = "Monitoring"
  THEN MonitoringUpdate(self, cg, spec, policy)
  ELSE GenericUpdate(self, cg, spec, policy, outcome)

\* CgroupResourceHandler::Create(spec): configure a newly created container.
HandlerCreate(self, cg, spec, outcome) ==
  HandlerUpdate(self, cg, spec, "UPDATE_REPLACE", outcome)

\* Faulty variant: Stats that fills a field of the output.
MonitoringStats_Fills(self, type, output) ==
  [status |-> "OK", out |-> output \cup {"f"}]

\* MonitoringResourceHandler::Stats: returns OK, leaves *output alone.
MonitoringStats(self, type, output) ==
  [status |-> "OK", out |-> output]

\* MonitoringResourceHandler::Spec: returns OK, leaves *spec alone.
MonitoringSpec(self, output) ==
  [status |-> "OK", out |-> output]

\* Faulty variant: RegisterNotification without the callback_deleter.
MonitoringRegisterNotification_Leak(self, eventSpec) ==
  [status |-> "NOT_FOUND", message |-> "No handled event found",
   deletes |-> 0, runs |-> 0, registered |-> FALSE]

\* MonitoringResourceHandler::RegisterNotification: callback_deleter deletes
\* the callback when the function returns; nothing is registered or run.
MonitoringRegisterNotification(self, eventSpec) ==
  [status |-> "NOT_FOUND", message |-> "No handled event found",
   deletes |-> 1, runs |-> 0, registered |-> FALSE]

\* CgroupResourceHandler::Destroy, from controller i of the map on: calls each
\* owned controller's Destroy in map order; a destroyed controller leaves the
\* map; the first failure is returned.
RECURSIVE DestroyFrom(_, _, _, _, _, _)
DestroyFrom(order, i, ctrls, cg, busy, called) ==
  IF i > Len(order)
  THEN [status |-> "OK", ctrls |-> ctrls, cg |-> cg, called |-> called]
  ELSE IF order[i] \notin DOMAIN ctrls
  THEN DestroyFrom(order, i + 1, ctrls, cg, busy, called)
  ELSE
    LET hier == order[i]
        r == ControllerDestroy(cg, hier, ctrls[hier].path, busy) IN
      IF r.status # "OK"
      THEN [status |-> r.status, ctrls |-> ctrls, cg |-> cg,
            called |-> Append(called, hier)]
      ELSE DestroyFrom(order, i + 1,
                       [k \in DOMAIN ctrls \ {hier} |-> ctrls[k]],
                       r.cg, busy, Append(called, hier))

\* Faulty variant: Destroy that deletes the object whatever the controllers said.
HandlerDestroy_AlwaysDeletes(self, cg, busy) ==
  LET r == DestroyFrom(HierarchyOrder(self.rtype), 1, self.ctrls, cg, busy,
                       <<>>) IN
    [status |-> r.status, cg |-> r.cg, called |-> r.called,
     self |-> [self EXCEPT !.ctrls = r.ctrls, !.state = "deleted"]]

\* CgroupResourceHandler::Destroy: destroys all controllers and iff OK
\* deletes this object.
HandlerDestroy(self, cg, busy) ==
  LET r == DestroyFrom(HierarchyOrder(self.rtype), 1, self.ctrls, cg, busy,
                       <<>>) IN
    [status |-> r.status, cg |-> r.cg, called |-> r.called,
     self |-> [self EXCEPT
                 !.ctrls = r.ctrls,
                 !.state = IF r.status = "OK" THEN "deleted" ELSE @]]

\* CgroupController::Enter(tid): moves the thread into the controller's
\* cgroup; fails when the directory is gone or when the kernel refuses the
\* write (refused: the <<hierarchy, tid>> writes it refuses now).
ControllerEnter(cg, tk, hier, path, tid, refused) ==
  IF ~DirExists(cg, hier, path) THEN [status |-> "NOT_FOUND", tasks |-> tk]
  ELSE IF <<hier, tid>> \in refused THEN [status |-> "INTERNAL", tasks |-> tk]
  ELSE [status |-> "OK", tasks |-> [tk EXCEPT ![<<hier, tid>>] = path]]

\* CgroupResourceHandler::Enter, from TID j of controller i on: for each
\* controller, for each TID, the controller's Enter; the first failure is
\* returned and what was moved stays moved.
RECURSIVE EnterFrom(_, _, _, _, _, _, _, _, _)
EnterFrom(order, i, tids, j, ctrls, cg, tk, refused, called) ==
  IF i > Len(order)
  THEN [status |-> "OK", tasks |-> tk, called |-> called]
  ELSE IF order[i] \notin DOMAIN ctrls \/ j > Len(tids)
  THEN EnterFrom(order, i + 1, tids, 1, ctrls, cg, tk, refused, called)
  ELSE
    LET hier == order[i]
        r == ControllerEnter(cg, tk, hier, ctrls[hier].path, tids[j], refused)
        calls == Append(called, <<hier, tids[j]>>) IN
      IF r.status # "OK"
      THEN [status |-> r.status, tasks |-> tk, called |-> calls]
      ELSE EnterFrom(order, i, tids, j + 1, ctrls, cg, r.tasks, refused, calls)

\* Faulty variant: Enter that puts the TIDs back where they were when a call
\* fails.
HandlerEnter_Reverts(self, cg, tk, tids, refused) ==
  LET r == EnterFrom(HierarchyOrder(self.rtype), 1, tids, 1, self.ctrls, cg,
                     tk, refused, <<>>) IN
    [r EXCEPT !.tasks = IF r.status = "OK" THEN r.tasks ELSE tk]

\* CgroupResourceHandler::Enter: enter the TIDs into all controllers.
HandlerEnter(self, cg, tk, tids, refused) ==
  EnterFrom(HierarchyOrder(self.rtype), 1, tids, 1, self.ctrls, cg, tk,
            refused, <<>>)

\* ---------------------------------------------------- factory: Get / Create

\* What Get / Create of a factory whose resource is not supported return:
\* nothing was asked of a controller factory.
NotSupported(rtype, cg, name) ==
  [status |-> "NOT_FOUND", cg |-> cg, built |-> FALSE,
   handler |-> CgroupResourceHandler(name, rtype, NoControllers),
   made |-> {}, rollback |-> "none", asked |-> <<>>]

\* CgroupResourceHandlerFactory::Get: NOT_FOUND when the resource is not
\* supported; else the default uses GetResourceHandler().  asked lists the
\* hierarchies whose controller factory was called.
FactoryGet(supported, rtype, cg, name) ==
  IF ~supported THEN NotSupported(rtype, cg, name)
  ELSE
    LET r == GetResourceHandler(rtype, cg, name) IN
      [status |-> r.status, cg |-> r.cg, built |-> r.status = "OK",
       handler |-> r.handler, made |-> {}, rollback |-> "none",
       asked |-> HierarchyOrder(rtype)]

\* Faulty variant: Create that returns the failure without destroying the handler.
FactoryCreate_NoRollback(supported, rtype, cg, name, spec, dir, outcome, busy) ==
  IF ~supported THEN NotSupported(rtype, cg, name)
  ELSE
  LET r == CreateResourceHandler(rtype, cg, name, spec, dir) IN
    IF r.status # "OK"
    THEN [status |-> r.status, cg |-> r.cg, built |-> FALSE,
          handler |-> r.handler, made |-> {}, rollback |-> "none",
          asked |-> HierarchyOrder(rtype)]
    ELSE
      LET u == HandlerCreate(r.handler, r.cg, spec, outcome) IN
        [status |-> u.status, cg |-> u.cg, built |-> TRUE,
         handler |-> [u.self EXCEPT
                        !.state = IF u.status = "OK" THEN "live"
                                  ELSE "dropped"],
         made |-> r.made, rollback |-> "none",
         asked |-> HierarchyOrder(rtype)]

\* Faulty variant: Create that does not look at is_supported_.
FactoryCreate_NoSupportCheck(supported, rtype, cg, name, spec, dir, outcome, busy) ==
  LET r == CreateResourceHandler(rtype, cg, name, spec, dir) IN
    IF r.status # "OK"
    THEN [status |-> r.status, cg |-> r.cg, built |-> FALSE,
          handler |-> r.handler, made |-> {}, rollback |-> "none",
          asked |-> HierarchyOrder(rtype)]
    ELSE
      LET u == HandlerCreate(r.handler, r.cg, spec, outcome) IN
        IF u.status = "OK"
        THEN [status |-> "OK", cg |-> u.cg, built |-> TRUE,
              handler |-> u.self, made |-> r.made, rollback |-> "none",
              asked |-> HierarchyOrder(rtype)]
        ELSE
          LET d == HandlerDestroy(u.self, u.cg, busy) IN
            [status |-> u.status, cg |-> d.cg, built |-> TRUE,
             handler |-> [d.self EXCEPT
                            !.state = IF d.status = "OK" THEN "deleted"
                                      ELSE "dropped"],
             made |-> r.made, rollback |-> d.status,
             asked |-> HierarchyOrder(rtype)]

\* CgroupResourceHandlerFactory::Create: NOT_FOUND when the resource is not
\* supported; else CreateResourceHandler(), then the spec is applied through
\* the handler; when that fails the new handler is Destroyed (a Destroy
\* failure is only logged) and the failure returned.
FactoryCreate(supported, rtype, cg, name, spec, dir, outcome, busy) ==
  IF ~supported THEN NotSupported(rtype, cg, name)
  ELSE
  LET r == CreateResourceHandler(rtype, cg, name, spec, dir) IN
    IF r.status # "OK"
    THEN [status |-> r.status, cg |-> r.cg, built |-> FALSE,
          handler |-> r.handler, made |-> {}, rollback |-> "none",
          asked |-> HierarchyOrder(rtype)]
    ELSE
      LET u == HandlerCreate(r.handler, r.cg, spec, outcome) IN
        IF u.status = "OK"
        THEN [status |-> "OK", cg |-> u.cg, built |-> TRUE,
              handler |-> u.self, made |-> r.made, rollback |-> "none",
              asked |-> HierarchyOrder(rtype)]
        ELSE
          LET d == HandlerDestroy(u.self, u.cg, busy) IN
            [status |-> u.status, cg |-> d.cg, built |-> TRUE,
             handler |-> [d.self EXCEPT
                            !.state = IF d.status = "OK" THEN "deleted"
                                      ELSE "dropped"],
             made |-> r.made, rollback |-> d.status,
             asked |-> HierarchyOrder(rtype)]

UpdateOutcomes(rtype) ==
  IF rtype = "Monitoring" THEN {"OK"}
  ELSE {"OK", "INVALID_ARGUMENT", "INTERNAL"}

Get(rtype, name) ==
  /\ ~crashed
  /\ factory[rtype].built
  /\ LET r == FactoryGet(factory[rtype].supported, rtype, cgroups, name)
         ok == r.status = "OK" IN
       /\ ok => Len(handlers) < MaxHandlers
       /\ handlers' = IF ok THEN Append(handlers, r.handler) ELSE handlers
       /\ cgroups' = r.cg
       /\ Record([NoCall EXCEPT
                    !.op = "Get", !.rtype = rtype, !.name = name,
                    !.status = r.status, !.called = r.asked,
                    !.h = IF ok THEN Len(handlers) + 1 ELSE 0])
  /\ UNCHANGED <<tasks, threads, mounted, owned, factoryVars, callbackVars, crashed, statsVars>>

Create(rtype, name, spec, outcome, busy) ==
  /\ ~crashed
  /\ factory[rtype].built
  /\ Len(handlers) < MaxHandlers
  /\ outcome \in UpdateOutcomes(rtype)
  /\ busy \subseteq Hierarchies(rtype)
  /\ outcome = "OK" => busy = {}
  /\ LET id == Len(handlers) + 1
         r == FactoryCreate(factory[rtype].supported, rtype, cgroups, name,
                            spec, id, outcome, busy) IN
       /\ handlers' = IF r.built THEN Append(handlers, r.handler) ELSE handlers
       /\ cgroups' = r.cg
       /\ Record([NoCall EXCEPT
                    !.op = "Create", !.rtype = rtype, !.name = name,
                    !.status = r.status, !.in = spec,
                    !.h = IF r.built THEN id ELSE 0,
                    !.created = r.made, !.rollback = r.rollback,
                    !.called = r.asked,
                    !.arg = outcome, !.busy = busy])
  /\ UNCHANGED <<tasks, threads, mounted, owned, factoryVars, callbackVars, crashed, statsVars>>

\* --------------------------------------------------------- handler: actions

\* A call on handler object h.  On a deleted object the call is a use after
\* free: it either runs on the stale object ("asif") or kills the process.
Callable(h, ub) ==
  /\ ~crashed
  /\ h \in 1..Len(handlers)
  /\ handlers[h].state \in {"live", "deleted"}
  /\ ub \in {"asif", "crash"}
  /\ handlers[h].state = "live" => ub = "asif"

CallOn(op, h) ==
  [NoCall EXCEPT
     !.op = op, !.h = h, !.rtype = handlers[h].rtype,
     !.name = handlers[h].name,
     !.live = handlers[h].state = "live",
     !.dangling = handlers[h].state = "deleted",
     !.pre = DOMAIN handlers[h].ctrls]

Crash(op, h) ==
  /\ crashed' = TRUE
  /\ Record([CallOn(op, h) EXCEPT !.status = "CRASHED"])
  /\ UNCHANGED <<tasks, threads, kernelVars, factoryVars, handlers, callbackVars, statsVars>>

Update(h, spec, policy, outcome, ub) ==
  /\ Callable(h, ub)
  /\ outcome \in UpdateOutcomes(handlers[h].rtype)
  /\ IF ub = "crash" THEN Crash("Update", h)
     ELSE
       LET r == HandlerUpdate(handlers[h], cgroups, spec, policy, outcome) IN
         /\ handlers' = [handlers EXCEPT ![h] = r.self]
         /\ cgroups' = r.cg
         /\ Record([CallOn("Update", h) EXCEPT !.status = r.status])
         /\ UNCHANGED <<tasks, threads, mounted, owned, factoryVars, callbackVars, crashed,
                        statsVars>>

Stats(h, type, output, ub) ==
  /\ Callable(h, ub)
  /\ handlers[h].rtype = "Monitoring"
  /\ IF ub = "crash" THEN Crash("Stats", h)
     ELSE
       LET r == MonitoringStats(handlers[h], type, output) IN
         /\ Record([CallOn("Stats", h) EXCEPT
                      !.status = r.status, !.in = output, !.out = r.out])
         /\ UNCHANGED <<tasks, threads, kernelVars, factoryVars, handlers, callbackVars,
                        crashed, statsVars>>

SpecOp(h, output, ub) ==
  /\ Callable(h, ub)
  /\ handlers[h].rtype = "Monitoring"
  /\ IF ub = "crash" THEN Crash("Spec", h)
     ELSE
       LET r == MonitoringSpec(handlers[h], output) IN
         /\ Record([CallOn("Spec", h) EXCEPT
                      !.status = r.status, !.in = output, !.out = r.out])
         /\ UNCHANGED <<tasks, threads, kernelVars, factoryVars, handlers, callbackVars,
                        crashed, statsVars>>

\* The caller allocates the callback and hands it over.
RegisterNotification(h, eventSpec, ub) ==
  /\ Callable(h, ub)
  /\ handlers[h].rtype = "Monitoring"
  /\ Len(callbacks) < MaxCallbacks
  /\ LET cb == Len(callbacks) + 1 IN
       IF ub = "crash"
       THEN /\ crashed' = TRUE
            /\ callbacks' = Append(callbacks, [deletes |-> 0, runs |-> 0])
            /\ Record([CallOn("RegisterNotification", h) EXCEPT
                         !.status = "CRASHED", !.cb = cb])
            /\ UNCHANGED <<tasks, threads, kernelVars, factoryVars, handlers, notifications,
                           statsVars>>
       ELSE
         LET r == MonitoringRegisterNotification(handlers[h], eventSpec) IN
           /\ callbacks' =
                Append(callbacks, [deletes |-> r.deletes, runs |-> r.runs])
           /\ notifications' =
                IF r.registered THEN notifications \cup {<<h, cb>>}
                ELSE notifications
           /\ Record([CallOn("RegisterNotification", h) EXCEPT
                        !.status = r.status, !.cb = cb,
                        !.arg = r.message])
           /\ UNCHANGED <<tasks, threads, kernelVars, factoryVars, handlers, crashed,
                          statsVars>>

\* The hierarchies on which the handler's cgroup still holds a thread: the
\* kernel does not remove a cgroup that is not empty.
Occupied(self, tk) ==
  {hier \in DOMAIN self.ctrls :
     \E tid \in Tids : tk[<<hier, tid>>] = self.ctrls[hier].path}

Destroy(h, busy, ub) ==
  /\ Callable(h, ub)
  /\ busy \subseteq Hierarchies(handlers[h].rtype)
  /\ Occupied(handlers[h], tasks) \subseteq busy
  /\ IF ub = "crash" THEN Crash("Destroy", h)
     ELSE
       LET r == HandlerDestroy(handlers[h], cgroups, busy) IN
         /\ handlers' = [handlers EXCEPT ![h] = r.self]
         /\ cgroups' = r.cg
         /\ Record([CallOn("Destroy", h) EXCEPT
                      !.status = r.status, !.called = r.called,
                      !.busy = busy])
         /\ UNCHANGED <<tasks, threads, mounted, owned, factoryVars, callbackVars, crashed,
                        statsVars>>

TidLists == {<<>>, <<1>>, <<1, 2>>, <<2, 1>>}

Enter(h, tids, refused, ub) ==
  /\ Callable(h, ub)
  /\ refused \subseteq Hierarchies(handlers[h].rtype) \X Tids
  /\ IF ub = "crash" THEN Crash("Enter", h)
     ELSE
       LET r == HandlerEnter(handlers[h], cgroups, tasks, tids, refused) IN
         /\ tasks' = r.tasks
         /\ Record([CallOn("Enter", h) EXCEPT
                      !.status = r.status, !.called = r.called,
                      !.tids = tids, !.refused = refused])
         /\ UNCHANGED <<threads, kernelVars, factoryVars, handlers,
                        callbackVars, crashed, statsVars>>

\* ------------------------------------------------------------ specification

StatsIdle ==
  /\ statsPc = 0
  /\ statsOut = <<>>
  /\ statsSetCalls = <<>>
  /\ statsReads = <<>>
  /\ statsOutcomes = <<>>
  /\ statsStatus = "idle"

\* The machines explored: nothing mounted, the perf hierarchy alone, or the
\* cpu and memory hierarchies alone.  The two resource types use disjoint
\* hierarchies and separate factories, so their handlers never interact.
MountChoices == {{}, {PerfHierarchy}, Hierarchies("Generic")}

Init ==
  /\ mounted \in MountChoices
  /\ owned \in SUBSET (mounted \cap {PerfHierarchy})
  /\ factory = [t \in ResourceTypes |-> NoFactory]
  /\ constructed = [perfControllerFactory |-> 0, Monitoring |-> 0, Generic |-> 0]
  /\ cgroups = [k \in AllHierarchies \X Names |-> 0]
  /\ handlers = <<>>
  /\ callbacks = <<>>
  /\ notifications = {}
  /\ crashed = FALSE
  /\ tasks = [k \in AllHierarchies \X Tids |-> RootPath]
  /\ threads = [t \in Threads |-> Idle]
  /\ last = NoCall
  /\ prev = NoPrev
  /\ StatsIdle

Ubs == {"asif", "crash"}

Next ==
  \/ \E t \in ResourceTypes : New(t)
  \/ \E t \in ResourceTypes, n \in Names : Get(t, n)
  \/ \E t \in ResourceTypes, n \in Names, s \in Messages :
        \E o \in UpdateOutcomes(t), b \in SUBSET Hierarchies(t) :
          Create(t, n, s, o, b)
  \/ \E h \in 1..Len(handlers), s \in Messages, p \in UpdatePolicies,
        ub \in Ubs :
        \E o \in UpdateOutcomes(handlers[h].rtype) : Update(h, s, p, o, ub)
  \/ \E h \in 1..Len(handlers), t \in StatsTypes, m \in Messages, ub \in Ubs :
        Stats(h, t, m, ub)
  \/ \E h \in 1..Len(handlers), m \in Messages, ub \in Ubs : SpecOp(h, m, ub)
  \/ \E h \in 1..Len(handlers), e \in Messages, ub \in Ubs :
        RegisterNotification(h, e, ub)
  \/ \E h \in 1..Len(handlers), ub \in Ubs :
        \E b \in SUBSET Hierarchies(handlers[h].rtype) : Destroy(h, b, ub)

Spec == Init /\ [][Next]_vars

\* -------------------------------------------- Stats of a generic resource

Counters == 1..NumCounters

\* Strong types (e.g. Bytes) wrap the number; .value() unwraps it.
Strong(n) == [strong |-> n]
Value(x) == x.strong

\* Counters of a strong type are set through SET_IF_PRESENT_VAL.
IsStrong(counter) == counter % 2 = 0

ReadValues == {10, 20}

\* What a controller getter can return for counter c: StatusOr<T>.
ReadOutcomes(c) ==
  {[status |-> "OK", value |-> IF IsStrong(c) THEN Strong(v) ELSE v] :
     v \in ReadValues}
  \cup {[status |-> e, value |-> IF IsStrong(c) THEN Strong(0) ELSE 0] :
          e \in {"NOT_FOUND", "INTERNAL", "UNAVAILABLE"}}

\* Faulty variant: SET_IF_PRESENT that ignores every failed read.
SET_IF_PRESENT_IgnoresErrors(statusor, counter, out, calls) ==
  IF statusor.status = "OK"
  THEN [returns |-> FALSE, status |-> "OK",
        out |-> [k \in DOMAIN out \cup {counter} |->
                   IF k = counter THEN statusor.value ELSE out[k]],
        calls |-> [calls EXCEPT ![counter] = @ + 1]]
  ELSE [returns |-> FALSE, status |-> "OK", out |-> out, calls |-> calls]

\* SET_IF_PRESENT(statusor, set_fn): set_fn is out->set_<counter>.
SET_IF_PRESENT(statusor, counter, out, calls) ==
  IF statusor.status = "OK"
  THEN [returns |-> FALSE, status |-> "OK",
        out |-> [k \in DOMAIN out \cup {counter} |->
                   IF k = counter THEN statusor.value ELSE out[k]],
        calls |-> [calls EXCEPT ![counter] = @ + 1]]
  ELSE IF statusor.status # "NOT_FOUND"
  THEN [returns |-> TRUE, status |-> statusor.status,
        out |-> out, calls |-> calls]
  ELSE [returns |-> FALSE, status |-> "OK", out |-> out, calls |-> calls]

\* Faulty variant: SET_IF_PRESENT_VAL that returns every failed read, NOT_FOUND too.
SET_IF_PRESENT_VAL_ReturnsNotFound(statusor, counter, out, calls) ==
  IF statusor.status = "OK"
  THEN [returns |-> FALSE, status |-> "OK",
        out |-> [k \in DOMAIN out \cup {counter} |->
                   IF k = counter THEN Value(statusor.value) ELSE out[k]],
        calls |-> [calls EXCEPT ![counter] = @ + 1]]
  ELSE [returns |-> TRUE, status |-> statusor.status,
        out |-> out, calls |-> calls]

\* SET_IF_PRESENT_VAL(statusor, set_fn): as above, through .value().
SET_IF_PRESENT_VAL(statusor, counter, out, calls) ==
  IF statusor.status = "OK"
  THEN [returns |-> FALSE, status |-> "OK",
        out |-> [k \in DOMAIN out \cup {counter} |->
                   IF k = counter THEN Value(statusor.value) ELSE out[k]],
        calls |-> [calls EXCEPT ![counter] = @ + 1]]
  ELSE IF statusor.status # "NOT_FOUND"
  THEN [returns |-> TRUE, status |-> statusor.status,
        out |-> out, calls |-> calls]
  ELSE [returns |-> FALSE, status |-> "OK", out |-> out, calls |-> calls]

\* Stats(type, output) of a live generic handler starts: nothing read yet.
StatsBegin(h) ==
  /\ Callable(h, "asif")
  /\ handlers[h].state = "live"
  /\ handlers[h].rtype = "Generic"
  /\ statsStatus # "running"
  /\ statsPc' = 1
  /\ statsOut' = <<>>
  /\ statsSetCalls' = [c \in Counters |-> 0]
  /\ statsReads' = <<>>
  /\ statsOutcomes' = <<>>
  /\ statsStatus' = "running"
  /\ Record(CallOn("StatsBegin", h))
  /\ UNCHANGED <<tasks, threads, kernelVars, factoryVars, handlers, callbackVars, crashed>>

\* One statement of Stats: read the next counter and pass the StatusOr to
\* the macro, which sets the statistic, skips it, or returns from Stats.
StatsRead(c, statusor) ==
  /\ statsStatus = "running"
  /\ statsPc = c
  /\ LET r == IF IsStrong(statsPc)
              THEN SET_IF_PRESENT_VAL(statusor, statsPc, statsOut,
                                      statsSetCalls)
              ELSE SET_IF_PRESENT(statusor, statsPc, statsOut, statsSetCalls)
     IN
       /\ statsReads' = Append(statsReads, statsPc)
       /\ statsOutcomes' = Append(statsOutcomes, statusor)
       /\ statsOut' = r.out
       /\ statsSetCalls' = r.calls
       /\ statsPc' = IF r.returns THEN 0 ELSE statsPc + 1
       /\ statsStatus' = IF r.returns THEN r.status ELSE "running"
       /\ Record([CallOn("StatsRead", last.h) EXCEPT
                    !.status = IF r.returns THEN r.status ELSE "OK"])
  /\ UNCHANGED <<tasks, threads, kernelVars, factoryVars, handlers, callbackVars, crashed>>

\* The end of Stats: every counter was read; return OK.
StatsReturn ==
  /\ statsStatus = "running"
  /\ statsPc = NumCounters + 1
  /\ statsPc' = 0
  /\ statsStatus' = "OK"
  /\ Record(CallOn("StatsReturn", last.h))
  /\ UNCHANGED <<tasks, threads, kernelVars, factoryVars, handlers, callbackVars, crashed,
                 statsOut, statsSetCalls, statsReads, statsOutcomes>>

\* A generic handler is created and its Stats is called, statement by
\* statement; the caller makes no other call while Stats runs.
NextStats ==
  \/ statsStatus # "running" /\ New("Generic")
  \/ /\ statsStatus # "running"
     /\ \E n \in Names : Create("Generic", n, EmptyMessage, "OK", {})
  \/ \E h \in 1..Len(handlers) : StatsBegin(h)
  \/ \E c \in Counters : \E o \in ReadOutcomes(c) : StatsRead(c, o)
  \/ StatsReturn

InitStats == Init /\ mounted = Hierarchies("Generic")

SpecStats == InitStats /\ [][NextStats]_vars

\* ------------------------------------- factories built without a mount check

\* The factories are constructed directly, on a machine where their
\* hierarchies may or may not be mounted, and then asked for handlers.
NextSupport ==
  \/ \E t \in ResourceTypes : Construct(t)
  \/ \E t \in ResourceTypes, n \in Names : Get(t, n)
  \/ \E t \in ResourceTypes, n \in Names, s \in Messages :
        Create(t, n, s, "OK", {})
  \/ \E h \in 1..Len(handlers) : Destroy(h, {}, "asif")

SpecSupport == Init /\ [][NextSupport]_vars

\* ------------------------------------------------------- Enter and the tasks

\* What the kernel may refuse during one Enter: nothing, or one write.
Refusals(rtype) == {{}} \cup {{p} : p \in Hierarchies(rtype) \X Tids}

\* One container of the generic resource is created, looked up, entered and
\* destroyed.
NextEnter ==
  \/ New("Generic")
  \/ Get("Generic", "/a")
  \/ Create("Generic", "/a", EmptyMessage, "OK", {})
  \/ \E h \in 1..Len(handlers), tids \in TidLists :
        \E r \in Refusals(handlers[h].rtype) : Enter(h, tids, r, "asif")
  \/ \E h \in 1..Len(handlers) :
        \E b \in SUBSET Hierarchies(handlers[h].rtype) : Destroy(h, b, "asif")

InitEnter == Init /\ mounted = Hierarchies("Generic")

SpecEnter == InitEnter /\ [][NextEnter]_vars

\* ------------------------------------------- handler calls from two threads

\* The threads that are inside a call on handler h.
Executing(h) == {t \in Threads : threads[t].pc # "idle" /\ threads[t].h = h}

\* Destroy and Enter hold the handler's mutex from call to return.
MutexFree(h) ==
  \A t \in Executing(h) : threads[t].op \notin {"Destroy", "Enter"}

\* Thread t calls op on handler h and is inside the method.
ThreadCall(t, op, h, ub) ==
  /\ threads[t] = Idle
  /\ Callable(h, ub)
  /\ IF ub = "crash" THEN Crash(op, h)
     ELSE /\ threads' = [threads EXCEPT
                           ![t] = [op |-> op, h |-> h, pc |-> "body",
                                   status |-> "OK"]]
          /\ UNCHANGED <<tasks, kernelVars, factoryVars, handlers,
                         callbackVars, crashed, last, prev, statsVars>>

\* MonitoringResourceHandler::Update is entered: its body takes no lock.
UpdateCall(t, h, ub) ==
  /\ h \in 1..Len(handlers)
  /\ handlers[h].rtype = "Monitoring"
  /\ ThreadCall(t, "Update", h, ub)

\* ... and returns.  The object may have been deleted since the call.
UpdateReturn(t, ub) ==
  /\ ~crashed
  /\ threads[t].op = "Update" /\ threads[t].pc = "body"
  /\ Callable(threads[t].h, ub)
  /\ IF ub = "crash" THEN Crash("Update", threads[t].h)
     ELSE
       LET h == threads[t].h
           r == MonitoringUpdate(handlers[h], cgroups, EmptyMessage,
                                 "UPDATE_REPLACE") IN
         /\ handlers' = [handlers EXCEPT ![h] = r.self]
         /\ cgroups' = r.cg
         /\ threads' = [threads EXCEPT ![t] = Idle]
         /\ Record([CallOn("Update", h) EXCEPT !.status = r.status])
         /\ UNCHANGED <<tasks, mounted, owned, factoryVars, callbackVars,
                        crashed, statsVars>>

\* Destroy is entered once the handler's mutex is free.
DestroyCall(t, h, ub) ==
  /\ h \in 1..Len(handlers)
  /\ MutexFree(h)
  /\ ThreadCall(t, "Destroy", h, ub)

\* Destroy's loop over the controllers.
DestroyControllers(t, busy) ==
  /\ ~crashed
  /\ threads[t].op = "Destroy" /\ threads[t].pc = "body"
  /\ LET h == threads[t].h
         r == HandlerDestroy(handlers[h], cgroups, busy) IN
       /\ busy \subseteq Hierarchies(handlers[h].rtype)
       /\ Occupied(handlers[h], tasks) \subseteq busy
       /\ handlers' = [handlers EXCEPT ![h].ctrls = r.self.ctrls]
       /\ cgroups' = r.cg
       /\ threads' = [threads EXCEPT ![t].pc = "delete",
                                     ![t].status = r.status]
  /\ UNCHANGED <<tasks, mounted, owned, factoryVars, callbackVars, crashed,
                 last, prev, statsVars>>

\* Destroy deletes this object iff the loop returned OK, and returns.
DestroyReturn(t) ==
  /\ ~crashed
  /\ threads[t].op = "Destroy" /\ threads[t].pc = "delete"
  /\ LET h == threads[t].h IN
       /\ handlers' =
            [handlers EXCEPT
               ![h].state = IF threads[t].status = "OK" THEN "deleted" ELSE @]
       /\ Record([CallOn("Destroy", h) EXCEPT !.status = threads[t].status])
  /\ threads' = [threads EXCEPT ![t] = Idle]
  /\ UNCHANGED <<tasks, kernelVars, factoryVars, callbackVars, crashed,
                 statsVars>>

\* Enter is entered once the handler's mutex is free.
EnterCall(t, h, ub) ==
  /\ h \in 1..Len(handlers)
  /\ MutexFree(h)
  /\ ThreadCall(t, "Enter", h, ub)

\* Enter moves the TIDs and returns.
EnterReturn(t, tids) ==
  /\ ~crashed
  /\ threads[t].op = "Enter" /\ threads[t].pc = "body"
  /\ LET h == threads[t].h
         r == HandlerEnter(handlers[h], cgroups, tasks, tids, {}) IN
       /\ tasks' = r.tasks
       /\ Record([CallOn("Enter", h) EXCEPT
                    !.status = r.status, !.called = r.called,
                    !.tids = tids])
  /\ threads' = [threads EXCEPT ![t] = Idle]
  /\ UNCHANGED <<kernelVars, factoryVars, handlers, callbackVars, crashed,
                 statsVars>>

\* Two threads share the handlers of one monitoring container.
NextThreads ==
  \/ New("Monitoring")
  \/ Create("Monitoring", "/a", EmptyMessage, "OK", {})
  \/ \E t \in Threads, h \in 1..Len(handlers), ub \in Ubs : UpdateCall(t, h, ub)
  \/ \E t \in Threads, ub \in Ubs : UpdateReturn(t, ub)
  \/ \E t \in Threads, h \in 1..Len(handlers), ub \in Ubs :
        DestroyCall(t, h, ub)
  \/ \E t \in Threads, b \in SUBSET {PerfHierarchy} : DestroyControllers(t, b)
  \/ \E t \in Threads : DestroyReturn(t)
  \/ \E t \in Threads, h \in 1..Len(handlers), ub \in Ubs : EnterCall(t, h, ub)
  \/ \E t \in Threads : EnterReturn(t, <<1>>)

InitThreads == Init /\ mounted = {PerfHierarchy}

SpecThreads == InitThreads /\ [][NextThreads]_vars

\* ------------------------------------------------------------------ claims

\* Two controller maps manage the same cgroups: same hierarchies, same paths.
SamePlace(c1, c2) ==
  /\ DOMAIN c1 = DOMAIN c2
  /\ \A k \in DOMAIN c1 : c1[k].path = c2[k].path

\* C1: a Get(name) issued right after a Create(name, spec) that returned OK
\* returns OK with a live handler whose controllers are on the same
\* hierarchies and cgroup paths as the created handler's; a Get(name) issued
\* right after a Destroy that returned OK on a handler of that name returns
\* NOT_FOUND and no handler.
C1_CreateGetDestroyGet ==
  (last.op = "Get" /\ prev.op \in {"Create", "Destroy"}
     /\ last.name = prev.name /\ last.rtype = prev.rtype) =>
    IF prev.op = "Create"
    THEN /\ last.status = "OK"
         /\ last.h \in 1..Len(handlers)
         /\ handlers[last.h].state = "live"
         /\ DOMAIN handlers[last.h].ctrls = Hierarchies(last.rtype)
         /\ SamePlace(handlers[last.h].ctrls, handlers[prev.h].ctrls)
    ELSE last.status = "NOT_FOUND" /\ last.h = 0

\* Create("/x") made handler 1, a Get made handler 2 on the same directory,
\* a Destroy returned OK, and the Get after it returned NOT_FOUND.
C1_Witness ==
  /\ prev.op = "Destroy" /\ last.op = "Get" /\ last.name = prev.name
  /\ last.status = "NOT_FOUND"
  /\ Len(handlers) = 2
  /\ handlers[1].rtype = "Monitoring"
  /\ handlers[1].backing[PerfHierarchy].dir = 1
  /\ handlers[2].backing = handlers[1].backing

\* C2 as stated: when CreateResourceHandler made directories and applying the
\* spec failed, the handler was Destroyed, Create returns the Update failure,
\* and no directory this call made remains.
C2_Original ==
  (last.op = "Create" /\ last.created # {} /\ last.arg # "OK") =>
    /\ last.rollback # "none"
    /\ last.status = last.arg
    /\ \A k \in last.created : ~DirExists(cgroups, k[1], k[2])

\* C2, amended: when CreateResourceHandler made directories and applying the
\* spec failed, Destroy was called on the new handler and Create returns the
\* Update failure, no handler being handed out; if that Destroy returned OK
\* no directory this call made remains, and if it failed exactly the
\* directories of the controllers it did not destroy remain.
C2_RollbackBestEffort ==
  (last.op = "Create" /\ last.created # {} /\ last.arg # "OK") =>
    /\ last.rollback # "none"
    /\ last.status = last.arg
    /\ last.h \in 1..Len(handlers)
    /\ handlers[last.h].state \in {"deleted", "dropped"}
    /\ last.rollback = "OK" =>
         /\ handlers[last.h].state = "deleted"
         /\ \A k \in last.created : ~DirExists(cgroups, k[1], k[2])
    /\ last.rollback # "OK" =>
         /\ handlers[last.h].state = "dropped"
         /\ \A k \in last.created :
              DirExists(cgroups, k[1], k[2]) <=>
                k[1] \in DOMAIN handlers[last.h].ctrls

\* A generic Create whose Update failed and whose rollback Destroy removed one
\* directory and failed on the other.
C2_Witness ==
  /\ last.op = "Create" /\ last.created # {} /\ last.arg = "INTERNAL"
  /\ last.status = "INTERNAL"
  /\ last.rollback = "FAILED_PRECONDITION"
  /\ \E k \in last.created : DirExists(cgroups, k[1], k[2])
  /\ \E k \in last.created : ~DirExists(cgroups, k[1], k[2])

Range(seq) == {seq[i] : i \in 1..Len(seq)}

\* C3: Destroy on a live handler returns OK iff the handler is deleted iff
\* no owned controller is left; it calls Destroy only on controllers it
\* still owns (never on one an earlier attempt destroyed), on all of them
\* when it returns OK; when it fails the handler stays live, keeps the
\* failed controller and those after it, and the status is that controller's
\* error: it fails only where the directory is gone or the kernel refuses.
C3_DestroyAllOrLive ==
  (last.op = "Destroy" /\ last.live) =>
    LET self == handlers[last.h]
        left == DOMAIN self.ctrls IN
      /\ (last.status = "OK") <=> (self.state = "deleted")
      /\ (self.state = "deleted") <=> (left = {})
      /\ self.state \in {"live", "deleted"}
      /\ Range(last.called) \subseteq last.pre
      /\ left = last.pre \ {k \in Range(last.called) :
                              last.status = "OK" \/ k # last.called[Len(last.called)]}
      /\ last.status = "OK" => Range(last.called) = last.pre
      /\ last.status # "OK" =>
           LET failed == last.called[Len(last.called)] IN
             /\ last.called # <<>>
             /\ failed \in left
             /\ IF DirExists(cgroups, failed, self.ctrls[failed].path)
                THEN failed \in last.busy /\ last.status = "FAILED_PRECONDITION"
                ELSE last.status = "NOT_FOUND"

\* A retry: an earlier Destroy destroyed some controllers and failed; this
\* one destroyed the remaining ones and returned OK.
C3_Witness ==
  /\ last.op = "Destroy" /\ last.live /\ last.status = "OK"
  /\ last.pre # {} /\ last.pre # Hierarchies(last.rtype)
  /\ Range(last.called) = last.pre

\* C4: in every state, for every handler whose Destroy has returned OK, it
\* owns no controller any more, and none of the directories its controllers
\* were built on exists (a directory made later at the same path is another
\* directory).
C4_NoDirectoryAfterDestroy ==
  \A h \in 1..Len(handlers) :
    handlers[h].state = "deleted" =>
      /\ handlers[h].ctrls = NoControllers
      /\ DOMAIN handlers[h].backing = Hierarchies(handlers[h].rtype)
      /\ \A hier \in DOMAIN handlers[h].backing :
           LET b == handlers[h].backing[hier] IN
             /\ b.dir # 0
             /\ cgroups[<<hier, b.path>>] # b.dir

\* A handler was destroyed and its path has since been created again.
C4_Witness ==
  \E h \in 1..Len(handlers) :
    /\ handlers[h].state = "deleted"
    /\ \E hier \in DOMAIN handlers[h].backing :
         DirExists(cgroups, hier, handlers[h].backing[hier].path)

\* C5 as stated: a call on a handler whose Destroy has returned OK never
\* succeeds.
C5_Original ==
  last.dangling => last.status # "OK"

\* The number a read value of counter c stands for.
Plain(c, v) == IF IsStrong(c) THEN v.strong ELSE v

StatsReturned == statsStatus \notin {"idle", "running"}

\* C6: Stats reads the counters in order; a counter not read is not set; a
\* read that is OK sets its counter exactly once, to the value read; a read
\* that is NOT_FOUND sets nothing and Stats goes on to the next counter (or
\* returns OK after the last); any other failed read sets nothing, is the
\* last read, and its status is what Stats returns.
C6_AbsentStatConvention ==
  /\ \A i \in 1..Len(statsReads) : statsReads[i] = i
  /\ Len(statsOutcomes) = Len(statsReads)
  /\ \A c \in Counters \ Range(statsReads) :
       statsSetCalls # <<>> => statsSetCalls[c] = 0 /\ c \notin DOMAIN statsOut
  /\ \A i \in 1..Len(statsReads) :
       LET c == statsReads[i]
           o == statsOutcomes[i] IN
         CASE o.status = "OK" ->
                /\ statsSetCalls[c] = 1
                /\ c \in DOMAIN statsOut
                /\ statsOut[c] = Plain(c, o.value)
                /\ i = Len(statsReads) => statsStatus \in {"running", "OK"}
           [] o.status = "NOT_FOUND" ->
                /\ statsSetCalls[c] = 0
                /\ c \notin DOMAIN statsOut
                /\ i = Len(statsReads) =>
                     \/ statsStatus = "running" /\ statsPc = c + 1
                     \/ statsStatus = "OK" /\ c = NumCounters
           [] OTHER ->
                /\ statsSetCalls[c] = 0
                /\ c \notin DOMAIN statsOut
                /\ i = Len(statsReads)
                /\ statsStatus = o.status
                /\ statsPc = 0

\* Counter 1 absent, counter 2 (a strong type) set, counter 3 fails: Stats
\* returned UNAVAILABLE.
C6_Witness ==
  /\ statsStatus = "UNAVAILABLE"
  /\ Len(statsReads) = 3
  /\ statsOutcomes[1].status = "NOT_FOUND"
  /\ statsOutcomes[2].status = "OK"
  /\ statsOut = [c \in {2} |-> 20]

\* C7: whatever the reads returned, a Stats that has returned did not return
\* NOT_FOUND (so in particular not when a counter was readable).
C7_StatsNeverNotFound ==
  StatsReturned => statsStatus # "NOT_FOUND"

\* Stats returned OK with a counter read and another one absent.
C7_Witness ==
  /\ statsStatus = "OK"
  /\ Len(statsReads) = NumCounters
  /\ \E i \in 1..Len(statsReads) : statsOutcomes[i].status = "OK"
  /\ \E i \in 1..Len(statsReads) : statsOutcomes[i].status = "NOT_FOUND"
  /\ statsOutcomes[2].status = "NOT_FOUND"

\* C8: with the perf hierarchy not mounted New returns NOT_FOUND with its
\* message and no factory of either class is ever constructed; a factory
\* New returned has owns_perf = OwnsCgroup(perf) and one factory of each
\* class was constructed; with perf mounted New returns OK.
C8_MonitoringNew ==
  /\ PerfHierarchy \notin mounted =>
       /\ ~factory["Monitoring"].built
       /\ constructed["Monitoring"] = 0
       /\ constructed.perfControllerFactory = 0
  /\ factory["Monitoring"].built =>
       /\ factory["Monitoring"].owns = (PerfHierarchy \in owned)
       /\ constructed["Monitoring"] = 1
       /\ constructed.perfControllerFactory = 1
  /\ (last.op = "New" /\ last.rtype = "Monitoring") =>
       IF PerfHierarchy \in mounted
       THEN last.status = "OK" /\ factory["Monitoring"].built
       ELSE /\ last.status = "NOT_FOUND"
            /\ last.arg =
                 "Monitoring resource depends on the perf cgroup hierarchy"

\* New was called with perf not mounted.
C8_Witness ==
  /\ last.op = "New" /\ last.rtype = "Monitoring"
  /\ last.status = "NOT_FOUND"
  /\ PerfHierarchy \notin mounted

\* C9: no notification is ever registered and no callback ever run; on a live
\* monitoring handler RegisterNotification returns NOT_FOUND, "No handled
\* event found", and the callback was deleted exactly once.
C9_RegisterNotification ==
  /\ notifications = {}
  /\ \A cb \in 1..Len(callbacks) : callbacks[cb].runs = 0
  /\ (last.op = "RegisterNotification" /\ last.live) =>
       /\ last.status = "NOT_FOUND"
       /\ last.arg = "No handled event found"
       /\ last.cb \in 1..Len(callbacks)
       /\ callbacks[last.cb].deletes = 1

\* RegisterNotification returned on a live handler.
C9_Witness ==
  /\ last.op = "RegisterNotification" /\ last.live
  /\ last.status = "NOT_FOUND"
  /\ callbacks[last.cb].deletes = 1

\* C10: every Update, Stats and Spec step on a live monitoring handler
\* returns OK, leaves the output message as it was given, and changes no
\* cgroup directory, no handler (so no controller set) and no callback.
C10_MonitoringNoOps ==
  [][(last'.op \in {"Update", "Stats", "Spec"} /\ last'.rtype = "Monitoring"
        /\ last'.live) =>
       /\ last'.status = "OK"
       /\ last'.out = last'.in
       /\ cgroups' = cgroups
       /\ handlers' = handlers
       /\ callbacks' = callbacks]_vars

\* Stats on a live monitoring handler, given an empty output.
C10_Witness ==
  /\ last.op = "Stats" /\ last.rtype = "Monitoring" /\ last.live
  /\ last.status = "OK"
  /\ last.in = EmptyMessage /\ last.out = EmptyMessage

\* C11 as stated: a Spec(out) call on the live handler the preceding Create
\* returned leaves in out every field that was set in the creating spec.
C11_Original ==
  [][(last.op = "Create" /\ last.status = "OK"
        /\ last'.op = "Spec" /\ last'.h = last.h /\ last'.live) =>
       /\ last'.status = "OK"
       /\ last.in \subseteq last'.out]_vars

\* The cgroup directories that exist.
Directories(cg) == {k \in DOMAIN cg : cg[k] # 0}

\* C12: every factory Get step leaves the set of cgroup directories (and each
\* directory) as it was, whether it succeeds or fails; when the directory for
\* the name is missing on a hierarchy of the resource, Get returns NOT_FOUND
\* and constructs no handler.
C12_GetNotFoundNoCreate ==
  [][last'.op = "Get" =>
       /\ cgroups' = cgroups
       /\ Directories(cgroups') = Directories(cgroups)
       /\ (\E hier \in Hierarchies(last'.rtype) :
             ~DirExists(cgroups, hier, last'.name)) =>
            /\ last'.status = "NOT_FOUND"
            /\ last'.h = 0
            /\ handlers' = handlers]_vars

\* Get("/b") failed NOT_FOUND while "/a" is the one directory there is.
C12_Witness ==
  /\ last.op = "Get" /\ last.name = "/b" /\ last.status = "NOT_FOUND"
  /\ Directories(cgroups) = {<<PerfHierarchy, "/a">>}

\* C13: a factory Create step for a name whose directory exists on a
\* hierarchy of the resource returns ALREADY_EXISTS, constructs no handler
\* and changes no directory and no handler; otherwise it makes the directory
\* on every hierarchy of the resource, applies the spec and returns what
\* applying it returned, and when that is OK the new directories are there,
\* owned by the new live handler, every other directory being as it was.
C13_CreateAlreadyExists ==
  [][last'.op = "Create" =>
       LET name == last'.name
           hs == Hierarchies(last'.rtype) IN
         IF \E hier \in hs : DirExists(cgroups, hier, name)
         THEN /\ last'.status = "ALREADY_EXISTS"
              /\ last'.h = 0
              /\ last'.created = {}
              /\ cgroups' = cgroups
              /\ handlers' = handlers
         ELSE /\ last'.created = {<<hier, name>> : hier \in hs}
              /\ last'.status = last'.arg
              /\ Len(handlers') = Len(handlers) + 1
              /\ last'.h = Len(handlers')
              /\ \A h \in 1..Len(handlers) : handlers'[h] = handlers[h]
              /\ \A k \in DOMAIN cgroups \ last'.created :
                   cgroups'[k] = cgroups[k]
              /\ last'.status = "OK" =>
                   /\ handlers'[last'.h].state = "live"
                   /\ handlers'[last'.h].name = name
                   /\ DOMAIN handlers'[last'.h].ctrls = hs
                   /\ \A hier \in hs :
                        /\ DirExists(cgroups', hier, name)
                        /\ handlers'[last'.h].ctrls[hier].path = name
                        /\ handlers'[last'.h].ctrls[hier].dir =
                             cgroups'[<<hier, name>>]]_vars

\* Create failed ALREADY_EXISTS on a directory a live handler manages.
C13_Witness ==
  /\ last.op = "Create" /\ last.status = "ALREADY_EXISTS"
  /\ \E h \in 1..Len(handlers) :
       /\ handlers[h].state = "live"
       /\ handlers[h].name = last.name
       /\ \A hier \in DOMAIN handlers[h].ctrls :
            cgroups[<<hier, last.name>>] = handlers[h].ctrls[hier].dir

\* C14: a factory whose resource has a hierarchy that is not mounted is not
\* supported, and every Get and Create step on it returns NOT_FOUND with no
\* handler, having called no controller factory (nothing looked up, nothing
\* created) and changed no directory and no handler.
C14_NotSupported ==
  [][(last'.op \in {"Get", "Create"}
        /\ ~(Hierarchies(last'.rtype) \subseteq mounted)) =>
       /\ ~factory[last'.rtype].supported
       /\ last'.status = "NOT_FOUND"
       /\ last'.h = 0
       /\ last'.called = <<>>
       /\ last'.created = {}
       /\ cgroups' = cgroups
       /\ handlers' = handlers]_vars

\* Create was called on a monitoring factory constructed with the perf
\* hierarchy not mounted.
C14_Witness ==
  /\ last.op = "Create" /\ last.rtype = "Monitoring"
  /\ factory["Monitoring"].built
  /\ PerfHierarchy \notin mounted
  /\ last.status = "NOT_FOUND"
  /\ Directories(cgroups) = {}

\* C16: an Enter step on a live handler calls the controllers' Enter only for
\* pairs of an owned controller and a given TID, each at most once; it
\* returns OK iff it made the call for every such pair and every call
\* succeeded; every call but the last succeeded; when it fails the last call
\* made is the failing one and its error is the status returned (no call
\* follows it); the TIDs of the successful calls are in the controller's
\* cgroup afterwards, also when a later call failed, and nothing else moved.
C16_EnterStopsAtFirstError ==
  [][(last'.op = "Enter" /\ last'.live) =>
       LET self == handlers[last'.h]
           calls == last'.called
           all == (DOMAIN self.ctrls) \X Range(last'.tids)
           Gone(p) == ~DirExists(cgroups, p[1], self.ctrls[p[1]].path)
           Fails(p) == Gone(p) \/ p \in last'.refused IN
         /\ \A i \in 1..Len(calls) : calls[i] \in all
         /\ \A i, j \in 1..Len(calls) : calls[i] = calls[j] => i = j
         /\ (last'.status = "OK") <=>
              (Range(calls) = all /\ \A p \in all : ~Fails(p))
         /\ \A i \in 1..(Len(calls) - 1) : ~Fails(calls[i])
         /\ last'.status # "OK" =>
              /\ calls # <<>>
              /\ Fails(calls[Len(calls)])
              /\ last'.status = IF Gone(calls[Len(calls)]) THEN "NOT_FOUND"
                                ELSE "INTERNAL"
         /\ tasks' = [k \in DOMAIN tasks |->
                        IF k \in Range(calls) /\ ~Fails(k)
                        THEN self.ctrls[k[1]].path ELSE tasks[k]]
         /\ cgroups' = cgroups
         /\ handlers' = handlers]_vars

\* Enter(<<1, 2>>) moved TID 1 on cpu, failed on TID 2 and stopped: TID 1
\* stays in the container's cpu cgroup and nothing was moved on memory.
C16_Witness ==
  /\ last.op = "Enter" /\ last.live /\ last.status = "INTERNAL"
  /\ last.tids = <<1, 2>>
  /\ last.called = << <<"cpu", 1>>, <<"cpu", 2>> >>
  /\ tasks[<<"cpu", 1>>] = "/a"
  /\ tasks[<<"cpu", 2>>] = RootPath
  /\ tasks[<<"memory", 1>>] = RootPath
  /\ tasks[<<"memory", 2>>] = RootPath

\* C15 as stated: in every state at most one of Update, Enter and Destroy is
\* executing on a handler, and no Update or Enter is executing on a handler
\* whose controllers a Destroy in progress has destroyed.
C15_Original ==
  \A h \in 1..Len(handlers) :
    /\ Cardinality(Executing(h)) <= 1
    /\ \A t1, t2 \in Executing(h) :
         (threads[t1].op = "Destroy" /\ threads[t1].pc = "delete"
            /\ threads[t1].status = "OK") =>
           threads[t2].op \notin {"Update", "Enter"}

\* Handler h owns a controller for cgroup k = <<hierarchy, path>>.
Owns(h, k) ==
  /\ k[1] \in DOMAIN handlers[h].ctrls
  /\ handlers[h].ctrls[k[1]].path = k[2]

C18_HandlerControllers ==
  \A h \in 1..Len(handlers) :
    handlers[h].state = "live" =>
      LET owned_ == DOMAIN handlers[h].ctrls IN
        /\ owned_ # {}
        /\ owned_ \subseteq Hierarchies(handlers[h].rtype)
        /\ \A hier \in owned_ :
             handlers[h].ctrls[hier].path = handlers[h].name
        /\ handlers[h].rtype = "Monitoring" => owned_ = {PerfHierarchy}

\* A Destroy failed on a monitoring handler, which is still live and still
\* owns its perf controller.
C18_Witness ==
  /\ last.op = "Destroy" /\ last.live /\ last.status = "FAILED_PRECONDITION"
  /\ last.rtype = "Monitoring"
  /\ handlers[last.h].state = "live"
  /\ DOMAIN handlers[last.h].ctrls = {PerfHierarchy}

\* C19: a Get or Create step of the monitoring factory does what the perf
\* controller factory's Get or Create does at the very name it was given,
\* whatever the spec: its status and its effect on the directories are those
\* of the controller factory, an error comes back unchanged with no handler
\* constructed, on OK the new handler's one controller is on that name's
\* perf cgroup, and CreateResourceHandler gives the same result for every
\* spec; so a Create that follows a Create of the same name that returned OK
\* fails ALREADY_EXISTS whatever the two specs were.
C19_MonitoringNameAndErrors ==
  [][(last'.rtype = "Monitoring" /\ last'.op \in {"Get", "Create"}) =>
       LET name == last'.name
           id == Len(handlers) + 1
           c == IF last'.op = "Get"
                THEN ControllerFactoryGet(cgroups, PerfHierarchy, name)
                ELSE ControllerFactoryCreate(cgroups, PerfHierarchy, name, id)
       IN
         /\ last'.status = c.status
         /\ cgroups' = c.cg
         /\ IF c.status # "OK"
            THEN last'.h = 0 /\ handlers' = handlers
            ELSE /\ last'.h = id
                 /\ handlers' =
                      Append(handlers,
                             MonitoringResourceHandler(
                               name, [path |-> name, dir |-> c.dir]))
         /\ last'.op = "Create" =>
              /\ \A s \in Messages :
                   MonitoringCreateResourceHandler(cgroups, name, s, id) =
                     MonitoringCreateResourceHandler(cgroups, name,
                                                     last'.in, id)
              /\ (last.op = "Create" /\ last.status = "OK"
                    /\ last.rtype = "Monitoring" /\ last.name = name) =>
                   last'.status = "ALREADY_EXISTS"]_vars

\* Create("/x", spec with the field set) right after a Create("/x", ...) that
\* returned OK: ALREADY_EXISTS, the one perf directory is that of "/x".
C19_Witness ==
  /\ last.op = "Create" /\ last.rtype = "Monitoring"
  /\ last.in = {"f"} /\ last.status = "ALREADY_EXISTS"
  /\ prev.op = "Create" /\ prev.name = last.name
  /\ Directories(cgroups) = {<<PerfHierarchy, last.name>>}

====
